---- MODULE Spec2Model ----
(***************************************************************************)
(* Model of csv_scraper.scrape_and_download and setup_download_handler.    *)
(* One call of scrape_and_download is a stack of frames: frame 1 is the    *)
(* caller's invocation, frame d+1 the recursive self-call made by frame d  *)
(* at csv_scraper.py:143.  Every awaited library call is a step that       *)
(* either completes or raises.  SpecCLI adds main_async, which may call     *)
(* scrape_and_download a second time.                                      *)
(***************************************************************************)
EXTENDS Integers, Sequences, FiniteSets, TLC

\* Depth of the frame stack the model allows (the code itself has no bound).
MaxDepth == 3

\* csv_scraper.py:139  "if file_size < 100"
Threshold == 100

\* csv_scraper.py:75-81  the five CSS selectors, in list order
NumSelectors == 5

Frames == 1..MaxDepth

\* Strategy NumSelectors + 1 is the XPath fallback of csv_scraper.py:98-100.
XPathStrategy == NumSelectors + 1
Strategies == 1..XPathStrategy

\* config.QUORUM_URL, and some other page
Urls == {"https://www.quorum.us/spreadsheet/external/JYrGBpZgfQeehlRsrxnv/",
         "https://example.org/table/"}

BrowserTypes == {"chromium", "firefox", "webkit"}

\* download_timeout: argparse default and config.DEFAULT_TIMEOUT
Timeouts == {30, 60}

\* Sizes of the file the browser saves, on both sides of the threshold.
Sizes == {Threshold - 1, Threshold}

\* str(e) of a raised exception; asyncio.TimeoutError() has the empty string.
FaultMsgs == {"", "fault"}

None == <<>>
Absent == 0 - 1

\* Placeholders of a frame that has not been called / has not returned.
NoArgs == [url |-> "", browser_type |-> "", download_timeout |-> 0, headless |-> FALSE]
NoResult == [success |-> FALSE, error |-> <<"unset", "">>]

VARIABLES
    depth,            \* index of the running (innermost) frame
    args,             \* per frame: the call's parameters
    pc,               \* per frame: position in scrape_and_download
    pending,          \* per frame: value of the return statement, held while finally runs
    ret,              \* per frame: the value returned to the caller
    browser,          \* per frame: the local `browser`: unbound / open / closed / close_failed
    closeCalls,       \* per frame: number of browser.close() invocations
    visible,          \* strategies with a visible match on the page under resolution
    sel,              \* per frame: index of the selector the for loop is at
    download_button,  \* per frame: 0 (None) or the strategy whose element was returned
    probed,           \* per frame: strategies probed so far, in order
    task,             \* per frame: state of the download_event task
    clickIssued,      \* per frame: the click command has been issued
    armedAtClick,     \* per frame: the download listener existed when the click was issued
    timedOut,         \* per frame: asyncio.wait_for raised TimeoutError
    srcSize,          \* size of the file saved in the downloads directory
    content,          \* per frame: number of bytes read from the downloaded file
    file_size,        \* per frame: os.path.getsize(destination)
    dest,             \* size of the destination file, Absent when there is none
    attempts,         \* the headless flag of every invocation started, in order
    cli               \* main_async: its position, flags, calls made and exit status

vars == <<depth, args, pc, pending, ret, browser, closeCalls, visible, sel,
          download_button, probed, task, clickIssued, armedAtClick, timedOut,
          srcSize, content, file_size, dest, attempts, cli>>

resolverVars == <<visible, sel, download_button, probed>>
taskVars     == <<task, clickIssued, armedAtClick, timedOut>>
fileVars     == <<srcSize, content, file_size, dest>>
stackVars    == <<depth, args, attempts>>

Ok == [success |-> TRUE, error |-> None]
\* A failure returned without its message.
FailNoReason(reason) == [success |-> FALSE, error |-> None]

Fail(reason) == [success |-> FALSE, error |-> reason]

\* csv_scraper.py:151  f"Error: {str(e)}"
ErrorReason(msg) == <<"Error: ", msg>>
NotFoundAny  == <<"Download button not found with any selector", "">>
NotFound     == <<"Download button not found", "">>
FailedOrTimedOut == <<"Download failed or timed out", "">>

\* scrape_and_download called directly, as run_scraper.main does: no CLI.
CliOff == [pc |-> "off", no_headless |-> FALSE, verify_content |-> FALSE,
           calls |-> 0, prior |-> 0, first |-> NoResult, status |-> Absent]

\* The state in which a call of scrape_and_download with parameters a begins.
CallInit(a) ==
    /\ depth = 1
    /\ args = [d \in Frames |-> IF d = 1 THEN a ELSE NoArgs]
    /\ attempts = <<a.headless>>
    /\ pc = [d \in Frames |-> IF d = 1 THEN "enter" ELSE "idle"]
    /\ pending = [d \in Frames |-> NoResult]
    /\ ret = [d \in Frames |-> NoResult]
    /\ browser = [d \in Frames |-> "unbound"]
    /\ closeCalls = [d \in Frames |-> 0]
    /\ visible = {}
    /\ sel = [d \in Frames |-> 1]
    /\ download_button = [d \in Frames |-> 0]
    /\ probed = [d \in Frames |-> <<>>]
    /\ task = [d \in Frames |-> "none"]
    /\ clickIssued = [d \in Frames |-> FALSE]
    /\ armedAtClick = [d \in Frames |-> FALSE]
    /\ timedOut = [d \in Frames |-> FALSE]
    /\ srcSize = Absent
    /\ content = [d \in Frames |-> Absent]
    /\ file_size = [d \in Frames |-> Absent]

Init ==
    /\ \E u \in Urls, b \in BrowserTypes, t \in Timeouts, h \in BOOLEAN :
          CallInit([url |-> u, browser_type |-> b, download_timeout |-> t,
                    headless |-> h])
    /\ dest = Absent
    /\ cli = CliOff

Goto(d, label) == pc' = [pc EXCEPT ![d] = label]

\* csv_scraper.py:150-151: the except clause turns the exception into the
\* return value, and the finally clause runs next.
Caught(d, msg) ==
    /\ pending' = [pending EXCEPT ![d] = Fail(ErrorReason(msg))]
    /\ Goto(d, "finally")

\* A return statement inside the try block: the value is held, finally runs.
Return(d, value) ==
    /\ pending' = [pending EXCEPT ![d] = value]
    /\ Goto(d, "finally")

\* An exception raised outside the try block leaves the frame as an exception.
Propagate(d) ==
    /\ Goto(d, "raised")
    /\ UNCHANGED pending

\* csv_scraper.py:38  async with async_playwright() as playwright
StartPlaywright ==
    /\ pc[depth] = "enter"
    /\ \/ Goto(depth, "makedirs") /\ UNCHANGED pending
       \/ Propagate(depth)
    /\ UNCHANGED <<cli, ret, browser, closeCalls, resolverVars, taskVars, fileVars, stackVars>>

\* csv_scraper.py:48-49  os.makedirs(downloads_path, exist_ok=True)
MakeDownloadsDir ==
    /\ pc[depth] = "makedirs"
    /\ \/ Goto(depth, "launch") /\ UNCHANGED pending
       \/ Propagate(depth)
    /\ UNCHANGED <<cli, ret, browser, closeCalls, resolverVars, taskVars, fileVars, stackVars>>

\* csv_scraper.py:53  browser = await browser_class.launch(headless=headless)
Launch ==
    /\ pc[depth] = "launch"
    /\ \/ /\ browser' = [browser EXCEPT ![depth] = "open"]
          /\ Goto(depth, "new_context")
          /\ UNCHANGED pending
       \/ /\ \E m \in FaultMsgs : Caught(depth, m)
          /\ UNCHANGED browser
    /\ UNCHANGED <<cli, ret, closeCalls, resolverVars, taskVars, fileVars, stackVars>>

\* A step of the try block that changes no modelled state: completes or raises.
PlainStep(from, to) ==
    /\ pc[depth] = from
    /\ \/ Goto(depth, to) /\ UNCHANGED pending
       \/ \E m \in FaultMsgs : Caught(depth, m)
    /\ UNCHANGED <<cli, ret, browser, closeCalls, resolverVars, taskVars, fileVars, stackVars>>

\* csv_scraper.py:56-60
NewContext == PlainStep("new_context", "new_page")

\* csv_scraper.py:62-65
NewPage == PlainStep("new_page", "goto")

\* csv_scraper.py:69  await page.goto(url, wait_until="networkidle")
\* The page that loads shows some set of matching controls.
Navigate ==
    /\ pc[depth] = "goto"
    /\ \/ /\ \E v \in SUBSET Strategies : visible' = v
          /\ Goto(depth, "sleep2")
          /\ UNCHANGED pending
       \/ /\ \E m \in FaultMsgs : Caught(depth, m)
          /\ UNCHANGED visible
    /\ UNCHANGED <<cli, ret, browser, closeCalls, sel, download_button, probed,
                   taskVars, fileVars, stackVars>>

\* csv_scraper.py:72  await asyncio.sleep(2)
Settle ==
    /\ pc[depth] = "sleep2"
    /\ Goto(depth, "resolve")
    /\ UNCHANGED <<cli, pending, ret, browser, closeCalls, resolverVars, taskVars,
                   fileVars, stackVars>>

\* The loop without its break statement.
LoopNeverBreaks(found) == FALSE

\* csv_scraper.py:89-91  "if download_button: ... break"
LoopBreaks(found) == found

\* csv_scraper.py:84-93  one iteration of the for loop over the CSS selectors:
\* wait_for_selector returns the element or raises; the exception is swallowed
\* and the loop continues.
ProbeSelector ==
    LET d == depth
        s == sel[d]
        found == s \in visible
    IN  /\ pc[d] = "resolve"
        /\ s <= NumSelectors
        /\ probed' = [probed EXCEPT ![d] = Append(@, s)]
        /\ download_button' = [download_button EXCEPT ![d] = IF found THEN s ELSE @]
        /\ IF LoopBreaks(found) \/ s = NumSelectors
           THEN Goto(d, "check") /\ UNCHANGED sel
           ELSE sel' = [sel EXCEPT ![d] = s + 1] /\ UNCHANGED pc
        /\ UNCHANGED <<cli, pending, ret, browser, closeCalls, visible, taskVars,
                       fileVars, stackVars>>

\* The XPath fallback with its exception swallowed like the loop's: the
\* attempt goes on without a button.
ProbeXPathSwallowed ==
    LET d == depth
    IN  /\ pc[d] = "check"
        /\ download_button[d] = 0
        /\ probed' = [probed EXCEPT ![d] = Append(@, XPathStrategy)]
        /\ download_button' = [download_button EXCEPT ![d] =
                                  IF XPathStrategy \in visible THEN XPathStrategy ELSE @]
        /\ visible' = {}
        /\ Goto(d, "load_state")
        /\ UNCHANGED <<cli, pending, ret, browser, closeCalls, sel, taskVars,
                       fileVars, stackVars>>

\* csv_scraper.py:95-102  the XPath fallback, tried when the loop found nothing;
\* its exception ends the attempt.
ProbeXPath ==
    LET d == depth
    IN  /\ pc[d] = "check"
        /\ download_button[d] = 0
        /\ probed' = [probed EXCEPT ![d] = Append(@, XPathStrategy)]
        /\ IF XPathStrategy \in visible
           THEN /\ download_button' = [download_button EXCEPT ![d] = XPathStrategy]
                /\ Goto(d, "check2")
                /\ UNCHANGED pending
           ELSE /\ Return(d, Fail(NotFoundAny))
                /\ UNCHANGED download_button
        /\ UNCHANGED <<cli, ret, browser, closeCalls, visible, sel, taskVars,
                       fileVars, stackVars>>

\* csv_scraper.py:104-109  the second "if not download_button", then sleep(3).
\* Resolution is over: the page is not probed again, and what it shows is
\* no longer tracked.
CheckFound ==
    LET d == depth
    IN  /\ \/ pc[d] = "check2"
           \/ pc[d] = "check" /\ download_button[d] # 0
        /\ IF download_button[d] = 0
           THEN Return(d, Fail(NotFound))
           ELSE Goto(d, "load_state") /\ UNCHANGED pending
        /\ visible' = {}
        /\ UNCHANGED <<cli, ret, browser, closeCalls, sel, download_button, probed,
                       taskVars, fileVars, stackVars>>

\* csv_scraper.py:112  await page.wait_for_load_state("networkidle")
WaitLoadState == PlainStep("load_state", "create_task")

\* csv_scraper.py:115  asyncio.create_task(setup_download_handler(...)): the
\* task is scheduled; its body has not run yet.
CreateTask ==
    /\ pc[depth] = "create_task"
    /\ task' = [task EXCEPT ![depth] = "unstarted"]
    /\ Goto(depth, "click")
    /\ UNCHANGED <<cli, pending, ret, browser, closeCalls, resolverVars, clickIssued,
                   armedAtClick, timedOut, fileVars, stackVars>>

\* The coroutine of scrape_and_download is suspended inside an await, so the
\* event loop may run the download_event task.
Suspended(d) == pc[d] \in {"click_yield", "click_wait", "wait_for"}

Listening(d) == task[d] = "wait_event"

\* csv_scraper.py:119  await download_button.click(): the library suspends the
\* caller without having sent the click yet.  The event loop then runs the
\* task scheduled at line 115 before it resumes the click.
ClickYield ==
    /\ pc[depth] = "click"
    /\ Goto(depth, "click_yield")
    /\ UNCHANGED <<cli, pending, ret, browser, closeCalls, resolverVars, taskVars,
                   fileVars, stackVars>>

\* csv_scraper.py:119  the click is sent to the browser, either before the
\* first suspension of the click coroutine or after it.
ClickIssue ==
    LET d == depth
    IN  /\ \/ pc[d] = "click"
           \/ pc[d] = "click_yield" /\ task[d] # "unstarted"
        /\ clickIssued' = [clickIssued EXCEPT ![d] = TRUE]
        /\ armedAtClick' = [armedAtClick EXCEPT ![d] = Listening(d)]
        /\ Goto(d, "click_wait")
        /\ UNCHANGED <<cli, pending, ret, browser, closeCalls, resolverVars, task,
                       timedOut, fileVars, stackVars>>

\* csv_scraper.py:119  click() raises
ClickRaise ==
    /\ pc[depth] \in {"click", "click_yield", "click_wait"}
    /\ \E m \in FaultMsgs : Caught(depth, m)
    /\ UNCHANGED <<cli, ret, browser, closeCalls, resolverVars, taskVars, fileVars, stackVars>>

\* csv_scraper.py:119-123  click() returns; the coroutine was suspended in it,
\* so the task has had its first run.
ClickDone ==
    /\ pc[depth] = "click_wait"
    /\ task[depth] # "unstarted"
    /\ Goto(depth, "wait_for")
    /\ UNCHANGED <<cli, pending, ret, browser, closeCalls, resolverVars, taskVars,
                   fileVars, stackVars>>

\* csv_scraper.py:176  the task's first run: page.wait_for_event('download')
\* registers the listener.
TaskStart ==
    /\ Suspended(depth)
    /\ task[depth] = "unstarted"
    /\ task' = [task EXCEPT ![depth] = "wait_event"]
    /\ UNCHANGED <<cli, pc, pending, ret, browser, closeCalls, resolverVars, clickIssued,
                   armedAtClick, timedOut, fileVars, stackVars>>

\* csv_scraper.py:176  the download event arrives after the click, or the
\* wait for it raises.
TaskEvent ==
    /\ Suspended(depth)
    /\ task[depth] = "wait_event"
    /\ \/ clickIssued[depth] /\ task' = [task EXCEPT ![depth] = "path"]
       \/ task' = [task EXCEPT ![depth] = "failed"]
    /\ UNCHANGED <<cli, pc, pending, ret, browser, closeCalls, resolverVars, clickIssued,
                   armedAtClick, timedOut, fileVars, stackVars>>

\* csv_scraper.py:179  path = await download.path()
TaskPath ==
    /\ Suspended(depth)
    /\ task[depth] = "path"
    /\ \E t \in {"save_as", "failed"} : task' = [task EXCEPT ![depth] = t]
    /\ UNCHANGED <<cli, pc, pending, ret, browser, closeCalls, resolverVars, clickIssued,
                   armedAtClick, timedOut, fileVars, stackVars>>

\* csv_scraper.py:182-191  makedirs, download.save_as(save_path), return save_path
TaskSaveAs ==
    /\ Suspended(depth)
    /\ task[depth] = "save_as"
    /\ \/ /\ \E n \in Sizes : srcSize' = n
          /\ task' = [task EXCEPT ![depth] = "done"]
       \/ /\ task' = [task EXCEPT ![depth] = "failed"]
          /\ UNCHANGED srcSize
    /\ UNCHANGED <<cli, pc, pending, ret, browser, closeCalls, resolverVars, clickIssued,
                   armedAtClick, timedOut, content, file_size, dest, stackVars>>

\* csv_scraper.py:183, 191  save_path = os.path.join(download_path, name): a
\* non-empty string, so "if downloaded_path" (line 125) is true.
DownloadedPathTruthy == TRUE

\* The browser closed as soon as the download is captured, before the copy.
WaitForDoneClosesFirst ==
    LET d == depth
    IN  /\ pc[d] = "wait_for"
        /\ task[d] = "done"
        /\ browser' = [browser EXCEPT ![d] = "closed"]
        /\ closeCalls' = [closeCalls EXCEPT ![d] = @ + 1]
        /\ Goto(d, "read")
        /\ UNCHANGED <<cli, pending, ret, resolverVars, taskVars, fileVars, stackVars>>

\* csv_scraper.py:123-125, 147-148  wait_for returns the task's result
WaitForDone ==
    LET d == depth
    IN  /\ pc[d] = "wait_for"
        /\ task[d] = "done"
        /\ IF DownloadedPathTruthy
           THEN Goto(d, "read") /\ UNCHANGED pending
           ELSE Return(d, Fail(FailedOrTimedOut))
        /\ UNCHANGED <<cli, ret, browser, closeCalls, resolverVars, taskVars, fileVars,
                       stackVars>>

\* csv_scraper.py:123  wait_for re-raises the task's exception, which is
\* thereby retrieved
WaitForFailed ==
    /\ pc[depth] = "wait_for"
    /\ task[depth] = "failed"
    /\ task' = [task EXCEPT ![depth] = "retrieved"]
    /\ \E m \in FaultMsgs : Caught(depth, m)
    /\ UNCHANGED <<cli, ret, browser, closeCalls, resolverVars, clickIssued,
                   armedAtClick, timedOut, fileVars, stackVars>>

\* str(asyncio.TimeoutError())
TimeoutMsg == ""

\* csv_scraper.py:123, 150-151  download_timeout expires: wait_for cancels the
\* task and raises asyncio.TimeoutError, which "except Exception" catches.
WaitForTimeout ==
    LET d == depth
    IN  /\ pc[d] = "wait_for"
        /\ task[d] \notin {"done", "failed"}
        /\ task' = [task EXCEPT ![d] = "cancelled"]
        /\ timedOut' = [timedOut EXCEPT ![d] = TRUE]
        /\ Caught(d, TimeoutMsg)
        /\ UNCHANGED <<cli, ret, browser, closeCalls, resolverVars, clickIssued,
                       armedAtClick, fileVars, stackVars>>

\* csv_scraper.py:131-132  content = src_file.read()
ReadSource ==
    LET d == depth
    IN  /\ pc[d] = "read"
        /\ \/ /\ content' = [content EXCEPT ![d] = srcSize]
              /\ Goto(d, "write")
              /\ UNCHANGED pending
           \/ /\ \E m \in FaultMsgs : Caught(d, m)
              /\ UNCHANGED content
        /\ UNCHANGED <<cli, ret, browser, closeCalls, resolverVars, taskVars, srcSize,
                       file_size, dest, stackVars>>

\* csv_scraper.py:134-135  open(destination, 'wb') creates or truncates the
\* file, write(content) fills it; either may raise, the write after some of
\* the bytes are on disk.
WriteDest ==
    LET d == depth
    IN  /\ pc[d] = "write"
        /\ \/ /\ dest' = content[d]
              /\ Goto(d, "getsize")
              /\ UNCHANGED pending
           \/ /\ \E m \in FaultMsgs : Caught(d, m)
              /\ \/ UNCHANGED dest
                 \/ \E k \in {0, content[d] \div 2} : dest' = k
        /\ UNCHANGED <<cli, ret, browser, closeCalls, resolverVars, taskVars, srcSize,
                       content, file_size, stackVars>>

\* The retry condition without its "if headless" test.
ShouldRetryAlways(size, headless) == size < Threshold

\* csv_scraper.py:139-141  the retry condition
ShouldRetry(size, headless) == size < Threshold /\ headless

\* A retry that passes only the url and the flag: the other parameters take
\* their defaults (csv_scraper.py:15-16).
RetryArgsDefaults(a) ==
    [url |-> a.url, browser_type |-> "chromium", download_timeout |-> 30,
     headless |-> FALSE]

\* csv_scraper.py:143  scrape_and_download(url, browser_type, download_timeout, False)
RetryArgs(a) ==
    [url |-> a.url, browser_type |-> a.browser_type,
     download_timeout |-> a.download_timeout, headless |-> FALSE]

\* csv_scraper.py:138-146  size check: recursive self-call, or return True, None
CheckSize ==
    LET d == depth
        size == dest
    IN  /\ pc[d] = "getsize"
        /\ file_size' = [file_size EXCEPT ![d] = size]
        /\ IF ShouldRetry(size, args[d].headless)
           THEN /\ d < MaxDepth
                /\ depth' = d + 1
                /\ args' = [args EXCEPT ![d + 1] = RetryArgs(args[d])]
                /\ attempts' = Append(attempts, RetryArgs(args[d]).headless)
                /\ pc' = [pc EXCEPT ![d] = "recursing", ![d + 1] = "enter"]
                /\ UNCHANGED pending
           ELSE /\ Return(d, Ok)
                /\ UNCHANGED stackVars
        /\ UNCHANGED <<cli, ret, browser, closeCalls, resolverVars, taskVars, srcSize,
                       content, dest>>

\* csv_scraper.py:143  "return await scrape_and_download(...)": the nested
\* call's value becomes this frame's return value.
NestedReturned ==
    /\ depth > 1
    /\ pc[depth] = "returned"
    /\ pc[depth - 1] = "recursing"
    /\ Return(depth - 1, ret[depth])
    /\ depth' = depth - 1
    /\ UNCHANGED <<cli, args, attempts, ret, browser, closeCalls, resolverVars, taskVars,
                   fileVars>>

\* csv_scraper.py:143, 150-151  the nested call raised: the await is inside
\* this frame's try block.
NestedRaised ==
    /\ depth > 1
    /\ pc[depth] = "raised"
    /\ pc[depth - 1] = "recursing"
    /\ \E m \in FaultMsgs : Caught(depth - 1, m)
    /\ depth' = depth - 1
    /\ UNCHANGED <<cli, args, attempts, ret, browser, closeCalls, resolverVars, taskVars,
                   fileVars>>

\* A teardown that never calls close().
CloseCallsNever(n, b) == n

\* csv_scraper.py:155  browser.close() is invoked when `browser` is bound; on
\* an unbound name the statement raises before any call is made.
CloseCalls(n, b) == IF b = "unbound" THEN n ELSE n + 1

\* A teardown whose exception is not swallowed: it replaces the held value.
TeardownExitUnswallowed(raised) == IF raised THEN "raised" ELSE "exit"

\* csv_scraper.py:156-157  "except Exception: pass": whether or not the close
\* statement raised, the function goes on to return the held value.
TeardownExit(raised) == "exit"

\* The task has been created and has neither finished nor been cancelled.
Pending(t) == t \in {"unstarted", "wait_event", "path", "save_as"}

\* csv_scraper.py:153-157  finally: close the browser, swallow what it raises.
\* A task still pending is neither awaited nor cancelled here; while close()
\* is awaited it stays pending, or it fails on the closing page, its
\* exception retrieved by nobody.
Finally ==
    LET d == depth
    IN  /\ pc[d] = "finally"
        /\ closeCalls' = [closeCalls EXCEPT ![d] = CloseCalls(@, browser[d])]
        /\ IF browser[d] = "unbound"
           THEN /\ UNCHANGED browser
                /\ Goto(d, TeardownExit(TRUE))
           ELSE \E b \in {"closed", "close_failed"} :
                    /\ browser' = [browser EXCEPT ![d] = b]
                    /\ Goto(d, TeardownExit(b = "close_failed"))
        /\ IF Pending(task[d])
           THEN \E t \in {task[d], "failed"} : task' = [task EXCEPT ![d] = t]
           ELSE UNCHANGED task
        /\ UNCHANGED <<cli, pending, ret, resolverVars, clickIssued, armedAtClick,
                       timedOut, fileVars, stackVars>>

\* csv_scraper.py:38, 102-151  leaving the async with block: the held value is
\* returned to the caller.
Exit ==
    LET d == depth
    IN  /\ pc[d] = "exit"
        /\ ret' = [ret EXCEPT ![d] = pending[d]]
        /\ Goto(d, "returned")
        /\ UNCHANGED <<cli, pending, browser, closeCalls, resolverVars, taskVars,
                       fileVars, stackVars>>

Next ==
    \/ StartPlaywright \/ MakeDownloadsDir \/ Launch \/ NewContext \/ NewPage
    \/ Navigate \/ Settle \/ ProbeSelector \/ ProbeXPath \/ CheckFound
    \/ WaitLoadState \/ CreateTask
    \/ ClickYield \/ ClickIssue \/ ClickRaise \/ ClickDone
    \/ TaskStart \/ TaskEvent \/ TaskPath \/ TaskSaveAs
    \/ WaitForDone \/ WaitForFailed \/ WaitForTimeout
    \/ ReadSource \/ WriteDest \/ CheckSize
    \/ NestedReturned \/ NestedRaised \/ Finally \/ Exit

Spec == Init /\ [][Next]_vars

(***************************************************************************)
(* main_async, the command line of csv_scraper.py                          *)
(***************************************************************************)

\* Line counts of the CSV file that main_async finds and verifies.
LineCounts == {1, 2}

\* csv_scraper.py:211-216  more than the header row
VerifyFileContent(lines) == ~(lines <= 1)

\* The verification asked for in visible mode too.
NeedsVerifyAnyMode(success, verify_content, headless) == success /\ verify_content

\* csv_scraper.py:259  "if success and args.verify_content and headless"
NeedsVerify(success, verify_content, headless) ==
    success /\ verify_content /\ headless

\* csv_scraper.py:278-282  exit(1) on failure, a normal end otherwise
ExitStatus(success) == IF success THEN 0 ELSE 1

\* csv_scraper.py:221-256  the arguments are parsed and the first call is made;
\* --browser and --timeout keep their defaults.
InitCLI ==
    /\ \E u \in Urls, nh \in BOOLEAN, vc \in BOOLEAN :
          /\ CallInit([url |-> u, browser_type |-> "chromium",
                       download_timeout |-> 30, headless |-> ~nh])
          /\ cli = [pc |-> "call", no_headless |-> nh, verify_content |-> vc,
                    calls |-> 1, prior |-> 0, first |-> NoResult, status |-> Absent]
    /\ dest = Absent

\* The primed form of CallInit: the frames of a new call, the files on disk
\* staying as the previous call left them.
CallStart(a) ==
    /\ depth' = 1
    /\ args' = [d \in Frames |-> IF d = 1 THEN a ELSE NoArgs]
    /\ attempts' = <<a.headless>>
    /\ pc' = [d \in Frames |-> IF d = 1 THEN "enter" ELSE "idle"]
    /\ pending' = [d \in Frames |-> NoResult]
    /\ ret' = [d \in Frames |-> NoResult]
    /\ browser' = [d \in Frames |-> "unbound"]
    /\ closeCalls' = [d \in Frames |-> 0]
    /\ visible' = {}
    /\ sel' = [d \in Frames |-> 1]
    /\ download_button' = [d \in Frames |-> 0]
    /\ probed' = [d \in Frames |-> <<>>]
    /\ task' = [d \in Frames |-> "none"]
    /\ clickIssued' = [d \in Frames |-> FALSE]
    /\ armedAtClick' = [d \in Frames |-> FALSE]
    /\ timedOut' = [d \in Frames |-> FALSE]
    /\ content' = [d \in Frames |-> Absent]
    /\ file_size' = [d \in Frames |-> Absent]
    /\ UNCHANGED <<srcSize, dest>>

frameVars == <<depth, args, pc, pending, ret, browser, closeCalls, visible, sel,
               download_button, probed, task, clickIssued, armedAtClick, timedOut,
               srcSize, content, file_size, dest, attempts>>

\* csv_scraper.py:251-259, 278-282  a call of scrape_and_download has ended.
\* An exception it raised leaves main_async and the process with status 1.
CliAfterCall ==
    /\ cli.pc = "call"
    /\ depth = 1
    /\ pc[1] \in {"returned", "raised"}
    /\ LET success == pc[1] = "returned" /\ ret[1].success
           first == IF cli.calls = 1 THEN ret[1] ELSE cli.first
       IN  IF /\ pc[1] = "returned"
              /\ cli.calls = 1
              /\ NeedsVerify(success, cli.verify_content, ~cli.no_headless)
           THEN cli' = [cli EXCEPT !.pc = "verify", !.first = first]
           ELSE cli' = [cli EXCEPT !.pc = "done", !.first = first,
                                   !.status = ExitStatus(success)]
    /\ UNCHANGED frameVars

\* csv_scraper.py:260-276  the file is looked up and verified; when it has no
\* more than one line, scrape_and_download is called again, not headless.
CliVerify ==
    /\ cli.pc = "verify"
    /\ \E lines \in LineCounts :
          IF dest # Absent /\ ~VerifyFileContent(lines)
          THEN /\ CallStart(RetryArgs(args[1]))
               /\ cli' = [cli EXCEPT !.pc = "call", !.calls = 2,
                                      !.prior = Len(attempts)]
          ELSE /\ cli' = [cli EXCEPT !.pc = "done", !.status = ExitStatus(TRUE)]
               /\ UNCHANGED frameVars

NextCLI == Next \/ CliAfterCall \/ CliVerify

SpecCLI == InitCLI /\ [][NextCLI]_vars

(***************************************************************************)
(* Properties                                                              *)
(***************************************************************************)

Returned(d) == pc[d] = "returned"
TooSmall(d) == file_size[d] # Absent /\ file_size[d] < Threshold
OpenSessions == {d \in Frames : browser[d] = "open"}

\* C1: one call runs at most two attempts, every attempt after the first runs
\* with headless = FALSE, headless goes from TRUE to FALSE at most once, and
\* an attempt that runs with headless = FALSE never starts another attempt.
C1_EscalationBound ==
    /\ Len(attempts) <= 2
    /\ \A i \in 2..Len(attempts) : attempts[i] = FALSE
    /\ Cardinality({i \in 1..(Len(attempts) - 1) : attempts[i] /\ ~attempts[i + 1]}) <= 1
    /\ \A d \in Frames : pc[d] = "recursing" => args[d].headless

\* The too-small condition recurred in the retry, and the call has returned.
C1_Witness ==
    /\ Returned(1)
    /\ Len(attempts) = 2
    /\ TooSmall(1) /\ TooSmall(2)

FileTooSmall == <<"file too small", "">>

\* C2: when the headless attempt and the visible retry both materialize a
\* file below the threshold, the call returns the failure "file too small".
C2_TooSmallTwiceFails ==
    (Returned(1) /\ TooSmall(1) /\ TooSmall(2))
        => (~ret[1].success /\ ret[1].error = FileTooSmall)

\* C3: an attempt returns success only when the destination file has at
\* least Threshold bytes, also when the attempt is not headless.
C3_SuccessOnlyAboveThreshold ==
    \A d \in Frames :
        (Returned(d) /\ ret[d].success) => (dest # Absent /\ dest >= Threshold)

\* C4 as stated: every attempt that returns an outcome has invoked close()
\* exactly once, the attempt whose launch raised included.
C4_CloseOnceOnEveryPath ==
    \A d \in Frames : Returned(d) => closeCalls[d] = 1

\* C4 amended: close() is never invoked twice; an attempt whose launch
\* succeeded has invoked it exactly once when its outcome is returned, and an
\* attempt whose launch raised has no session and never invokes it.
C4_CloseOncePerLaunchedSession ==
    \A d \in Frames :
        /\ closeCalls[d] <= 1
        /\ (Returned(d) /\ browser[d] # "unbound")
              => (closeCalls[d] = 1 /\ browser[d] # "open")
        /\ browser[d] = "unbound" => closeCalls[d] = 0

\* An attempt that timed out, and the retry of a too-small file, each returned
\* with its session closed once.
C4_Witness ==
    /\ Returned(1) /\ Returned(2)
    /\ TooSmall(1)
    /\ timedOut[2]
    /\ closeCalls[1] = 1 /\ closeCalls[2] = 1

\* C5: at most one browser session is open at any time.
C5_OneSessionAtATime == Cardinality(OpenSessions) <= 1

\* C6: when the click is issued, the download listener is registered.
C6_ArmedBeforeClick ==
    \A d \in Frames : clickIssued[d] => armedAtClick[d]

\* C7: an attempt whose download wait timed out returns the timeout reason,
\* not the reason form used for unexpected faults.
C7_TimeoutIsDistinctKind ==
    \A d \in Frames :
        (Returned(d) /\ timedOut[d])
            => (ret[d].error = FailedOrTimedOut /\ ret[d].error[1] # ErrorReason("")[1])

\* C8: when the call returns a failure, no file is left at the destination.
C8_NoFileLeftOnFailure ==
    (Returned(1) /\ ~ret[1].success) => dest = Absent

\* C9: no invocation ends as a raised exception.
C9_NeverRaises ==
    \A d \in Frames : pc[d] # "raised"

InPriorityOrder(seq) == \A i \in 1..Len(seq) : seq[i] = i

FirstVisible(b) == b \in visible /\ \A s \in visible : b <= s

\* C10: strategies are probed in priority order without skipping; a strategy
\* that did not match is followed by the next one; the element returned is
\* that of the first strategy with a visible match; nothing is probed after
\* a match.
C10_FirstMatchWins ==
    \A d \in Frames :
        LET b == download_button[d]
            n == Len(probed[d])
        IN  /\ InPriorityOrder(probed[d])
            /\ b # 0 => n = b
            /\ (d = depth /\ pc[d] \in {"resolve", "check", "check2"})
                  => /\ b # 0 => FirstVisible(b)
                     /\ \A i \in 1..n : probed[d][i] \in visible => (i = n /\ b = i)
                     /\ (pc[d] = "resolve" /\ n > 0) => sel[d] = n + 1
                     /\ (pc[d] = "check" /\ b = 0) => n = NumSelectors
            /\ (pc[d] \in {"finally", "exit", "returned"} /\ b = 0 /\ n > 0)
                  => n = XPathStrategy

\* Three strategies match, the two before the first of them timed out.
C10_Witness ==
    /\ pc[depth] = "check"
    /\ visible = {3, 5, XPathStrategy}
    /\ download_button[depth] = 3
    /\ probed[depth] = <<1, 2, 3>>

NoStrategyMatched(d) ==
    /\ Len(probed[d]) = XPathStrategy
    /\ download_button[d] = 0

NeverDownloaded(d) ==
    /\ task[d] = "none"
    /\ ~clickIssued[d]
    /\ content[d] = Absent
    /\ file_size[d] = Absent

\* C11: an attempt in which all six strategies were probed and none matched
\* ends with a button-not-found failure, and has not created the download
\* task, clicked, read the download or written the destination file.
C11_NotFoundEndsAttempt ==
    \A d \in Frames :
        NoStrategyMatched(d)
            => /\ pc[d] \in {"finally", "exit", "returned"}
               /\ pending[d] = Fail(NotFoundAny)
               /\ Returned(d) => ret[d] = Fail(NotFoundAny)
               /\ NeverDownloaded(d)

\* The first attempt found no button and returned, leaving no file.
C11_Witness ==
    /\ Returned(1)
    /\ NoStrategyMatched(1)
    /\ dest = Absent

\* The latest attempt has read its download and its write step has acted.
CopyBegun(d) ==
    /\ d = Len(attempts)
    /\ content[d] # Absent
    /\ pc[d] # "write"

\* C12: once the copy step of an attempt has begun, the destination holds
\* all the bytes of the source or does not exist.
C12_CopyAllOrNothing ==
    \A d \in Frames :
        CopyBegun(d) => (dest = Absent \/ dest = content[d])

\* C13: an attempt whose browser.close() raised does not end as an exception;
\* it returns the value its try block produced: success stays success and a
\* failure keeps its reason.
C13_TeardownKeepsResult ==
    \A d \in Frames :
        browser[d] = "close_failed"
            => /\ pc[d] \in {"exit", "returned"}
               /\ pending[d] # NoResult
               /\ Returned(d) => ret[d] = pending[d]
               /\ (Returned(d) /\ timedOut[d]) => ret[d] = Fail(ErrorReason(TimeoutMsg))
               /\ (Returned(d) /\ NoStrategyMatched(d)) => ret[d] = Fail(NotFoundAny)
               /\ (Returned(d) /\ file_size[d] # Absent /\ ~TooSmall(d)) => ret[d] = Ok

\* close() raised after a good download, and the attempt returned success.
C13_Witness ==
    /\ Returned(1)
    /\ browser[1] = "close_failed"
    /\ ret[1] = Ok
    /\ dest = Threshold

\* C15: a returned value is (True, None) with a file at the destination, or
\* (False, reason) with a reason that is not None.
C15_ResultFullyPopulated ==
    \A d \in Frames :
        Returned(d)
            => /\ ret[d].success => (ret[d].error = None /\ dest # Absent)
               /\ ~ret[d].success => ret[d].error # None

\* The retry failed after the headless attempt had written a file: the call
\* returns a failure with its reason.
C15_Witness ==
    /\ Returned(1) /\ Returned(2)
    /\ ~ret[1].success
    /\ ret[1].error = ErrorReason("fault")
    /\ dest # Absent

\* A second attempt is started exactly when the first one was headless and
\* materialized a file below the threshold; an attempt that materialized
\* nothing starts no other attempt.
C16_RetryIffHeadlessTooSmall ==
    /\ Len(attempts) >= 2 <=> (args[1].headless /\ TooSmall(1))
    /\ \A d \in 1..(MaxDepth - 1) : file_size[d] = Absent => pc[d + 1] = "idle"

\* C16: the retry is started if and only if the first attempt was headless
\* and its file was below the threshold, no failed attempt starts another
\* one, and when the retry was run the call returns the retry's result.
C16_RetryResultIsCallResult ==
    /\ C16_RetryIffHeadlessTooSmall
    /\ (Returned(1) /\ Len(attempts) >= 2) => (Returned(2) /\ ret[1] = ret[2])

\* C17: a call stops only by returning a result: in every state in which no
\* step of the call is possible, the caller's invocation has returned.
C17_StopsOnlyReturned ==
    Returned(1) \/ ENABLED Next

\* Every await of the call completes or raises within its bound, so a call
\* that can take a step eventually takes one.
FairSpec == Init /\ [][Next]_vars /\ WF_vars(Next)

\* The call does not run forever: it ends, returned or raised.
Terminates == <>(pc[1] \in {"returned", "raised"})

\* The attempt has captured its download and its copy has not ended.
BetweenCaptureAndCopyEnd(d) ==
    \/ task[d] = "done" /\ pc[d] \in {"click_wait", "wait_for"}
    \/ pc[d] \in {"read", "write", "getsize"}

\* C18: between the capture of the download and the end of the copy the
\* attempt's session is open and close() has not been invoked; close() is
\* invoked only after the copy step is over.
C18_CopyBeforeClose ==
    \A d \in Frames :
        /\ BetweenCaptureAndCopyEnd(d) => (browser[d] = "open" /\ closeCalls[d] = 0)
        /\ closeCalls[d] > 0 => pc[d] \in {"exit", "returned"}

\* The download was copied in full, and then the session was closed.
C18_Witness ==
    /\ pc[1] = "exit"
    /\ task[1] = "done"
    /\ content[1] = Threshold
    /\ dest = content[1]
    /\ closeCalls[1] = 1
    /\ browser[1] = "closed"

\* The parameters of a running or finished invocation stay as they are, and
\* an invocation that starts is the retry of the one below it: the same url,
\* browser type and download timeout, with headless = FALSE.
ArgsStep ==
    \A d \in Frames :
        /\ pc[d] # "idle" => args'[d] = args[d]
        /\ (pc[d] = "idle" /\ pc'[d] # "idle")
              => /\ d > 1
                 /\ args'[d] = [args[d - 1] EXCEPT !.headless = FALSE]

\* C19: the retry runs with the url, browser type and download timeout of
\* the original attempt and with headless = FALSE, and the parameters of the
\* original attempt are never modified.
C19_RetryKeepsRequest ==
    /\ [](\A d \in 2..MaxDepth :
            pc[d] # "idle" => args[d] = [args[d - 1] EXCEPT !.headless = FALSE])
    /\ [][ArgsStep]_vars

\* A retry is running for a request that has no default value.
C19_Witness ==
    /\ pc[2] = "goto"
    /\ args[1] = [url |-> "https://example.org/table/", browser_type |-> "webkit",
                  download_timeout |-> 60, headless |-> TRUE]
    /\ args[2] = [url |-> "https://example.org/table/", browser_type |-> "webkit",
                  download_timeout |-> 60, headless |-> FALSE]

\* C20: when an attempt returns, the task it created is not pending and has
\* no unretrieved exception: it completed, its exception was re-raised by
\* wait_for, or it was cancelled.
C20_TaskSettledAtReturn ==
    \A d \in Frames :
        Returned(d) => task[d] \in {"none", "done", "retrieved", "cancelled"}

TotalAttempts == cli.prior + Len(attempts)

\* C14 as stated: one CLI invocation makes a single call of
\* scrape_and_download, runs at most two attempts, and exits with the
\* status of that call's result.
C14_CliSingleAcquire ==
    /\ cli.calls <= 1
    /\ TotalAttempts <= 2
    /\ cli.pc = "done" => cli.status = ExitStatus(cli.first.success)

\* C14 amended: a second call is made only with --verify-content, in headless
\* mode, after a first call that succeeded, and it is not headless; at most
\* three attempts are run, two when no second call is made; the exit status
\* is the result of the last call made.
C14_CliAtMostOneMoreCall ==
    /\ cli.calls \in {1, 2}
    /\ cli.calls = 2
          => /\ cli.verify_content /\ ~cli.no_headless
             /\ cli.first.success
             /\ ~args[1].headless
             /\ Len(attempts) = 1
    /\ cli.pc = "verify" => (cli.first.success /\ dest # Absent)
    /\ TotalAttempts <= (IF cli.calls = 2 THEN 3 ELSE 2)
    /\ cli.pc = "done"
          => cli.status = ExitStatus(pc[1] = "returned" /\ ret[1].success)

\* The first call succeeded after its visible retry, the file failed the
\* verification, and the second call failed: three attempts, exit status 1.
C14_Witness ==
    /\ cli.pc = "done"
    /\ cli.calls = 2
    /\ TotalAttempts = 3
    /\ cli.first = Ok
    /\ ~ret[1].success
    /\ cli.status = 1

====
